---- MODULE Spec2Model ----
(***************************************************************************)
(* A model of src/synthesizer/synth.py: the WaveSynth facade, the ADSR     *)
(* envelope, delay, the combinator results and the echo oscillator.        *)
(*                                                                         *)
(* Python floats are modelled as exact rationals <<n, d>> (d > 0, lowest   *)
(* terms); int() is truncation toward zero.  A generator is modelled by    *)
(* the position it is suspended at; the statements that follow a yield are *)
(* executed together with that yield, nothing else can observe them before *)
(* the next pull.  A source oscillator is the ramp 1, 2, 3, ...: its i-th  *)
(* pulled sample (counting from 0) is i + 1, so that a sample's value      *)
(* tells its place in the source.                                          *)
(***************************************************************************)
EXTENDS Integers, Sequences, FiniteSets, TLC

VARIABLES
    \* WaveSynth facade: the call made, where it stands, the buffer, the exception
    fCall, fPc, fBuf, fErr, fYielded,
    \* OscillatorBase.envelope wrapper generator
    envArgs, envPc, time, amp, amp_change, envPulling, envOut, envEmitted,
    envSrcPos, envSilence, envSeg, envSegEmit, envSegPull, envErr,
    \* OscillatorBase.delay delayfunc generator
    dArgs, dPc, dCount, dOut, dSrcPos, dErr,
    \* the object a chain of combinator calls has produced
    chObj, chOps, chErr,
    \* EchoingOscillator generator
    eArgs, ePc, eOut, eSrcPos, eCur, eZeros,
    \* primitive oscillators: the objects, what __init__ stored in them that
    \* iterating changes, and the generators running over them
    oObj, oOf, oFm, oPwm, oValue, oGen,
    \* OscillatorBase.clip and the generator of the oscillator it returns
    cArgs, cPc, minimum, maximum, cIn, cOut

facadeVars == <<fCall, fPc, fBuf, fErr, fYielded>>
envVars == <<envArgs, envPc, time, amp, amp_change, envPulling, envOut, envEmitted,
             envSrcPos, envSilence, envSeg, envSegEmit, envSegPull, envErr>>
delayVars == <<dArgs, dPc, dCount, dOut, dSrcPos, dErr>>
chainVars == <<chObj, chOps, chErr>>
echoVars == <<eArgs, ePc, eOut, eSrcPos, eCur, eZeros>>
oscVars == <<oObj, oOf, oFm, oPwm, oValue, oGen>>
clipVars == <<cArgs, cPc, minimum, maximum, cIn, cOut>>
vars == <<facadeVars, envVars, delayVars, chainVars, echoVars, oscVars, clipVars>>

----------------------------------------------------------------------------
(* Exact arithmetic standing for the floats of the code. *)

RECURSIVE GCD(_, _)
GCD(a, b) == IF b = 0 THEN a ELSE GCD(b, a % b)

Abs(x) == IF x < 0 THEN -x ELSE x

\* n/d in lowest terms with a positive denominator (d # 0)
Norm(n, d) ==
    LET g == GCD(Abs(n), Abs(d))
        s == IF d < 0 THEN -1 ELSE 1
    IN  <<(s * n) \div g, (s * d) \div g>>

Rat(n) == <<n, 1>>
RAdd(x, y) == Norm(x[1] * y[2] + y[1] * x[2], x[2] * y[2])
RSub(x, y) == Norm(x[1] * y[2] - y[1] * x[2], x[2] * y[2])
RMul(x, y) == Norm(x[1] * y[1], x[2] * y[2])
\* x / y for y # 0; the callers test DivRaises(y) first
RDiv(x, y) == Norm(x[1] * y[2], x[2] * y[1])
RLt(x, y) == x[1] * y[2] < y[1] * x[2]
RLe(x, y) == x[1] * y[2] <= y[1] * x[2]
RNeg(x) == <<-x[1], x[2]>>

\* Python: x / 0 raises ZeroDivisionError
DivRaises(y) == y[1] = 0
\* a guard that is missing: the body runs whatever the number is
TruthyAlways(x) == TRUE
\* Python: `if x:` on a number
Truthy(x) == x[1] # 0
\* Python: int(x) truncates toward zero
PyInt(x) == IF x[1] >= 0 THEN x[1] \div x[2] ELSE -((-x[1]) \div x[2])
\* the mathematical floor, used to state the claims
Floor(x) == x[1] \div x[2]

\* the i-th sample (from 0) a source oscillator yields
Src(i) == Rat(i + 1)

----------------------------------------------------------------------------
(* WaveSynth: the finite renders and the *_gen generator functions.  One   *)
(* facade call is made per behaviour; the facade keeps no state between    *)
(* calls.  A rendered or yielded sample is recorded by its ordinal in the  *)
(* wave.                                                                   *)

\* self.samplerate of the facade
FacadeRate == 4
\* frequencies 0..MaxFreq Hz are tried
MaxFreq == 3
\* durations are multiples of 1/(DurationGrid*FacadeRate) seconds
DurationGrid == 2
\* the longest duration, in those units
MaxDuration == 5

WaveOps == {"sine", "square", "square_h", "triangle", "sawtooth", "sawtooth_h",
            "pulse", "harmonics", "white_noise"}
FacadeOps == WaveOps \cup {"linear"}

Amplitudes == {<<-1, 2>>, Rat(0), Rat(1), <<3, 2>>}
Biases == {<<-3, 2>>, Rat(-1), Rat(1), <<3, 2>>}
PulseWidths == {<<-1, 2>>, Rat(0), Rat(1), <<3, 2>>}
Durations == {Norm(k, DurationGrid * FacadeRate) : k \in 0..MaxDuration}
\* the default pulsewidth=0.1 of pulse and pulse_gen
DefaultPulseWidth == <<1, 10>>

\* only the renders and linear_gen take a duration
CallDurations(form, op) ==
    IF form = "render" \/ op = "linear" THEN Durations ELSE {Rat(0)}

\* the calls tried, for form = "render" (sine, ...) or "gen" (sine_gen, ...)
FacadeCalls(form) ==
    UNION {{[op |-> o, form |-> form, frequency |-> f, amplitude |-> a, bias |-> b,
             pulsewidth |-> DefaultPulseWidth, fm_lfo |-> m, duration |-> d,
             start_amp |-> Rat(0), finish_amp |-> Rat(0)] :
               f \in 0..MaxFreq, a \in Amplitudes, b \in Biases, m \in BOOLEAN,
               d \in CallDurations(form, o)} :
           o \in WaveOps \ {"pulse", "white_noise"}}
    \cup
    {[op |-> "pulse", form |-> form, frequency |-> f, amplitude |-> a, bias |-> b,
      pulsewidth |-> w, fm_lfo |-> m, duration |-> d,
      start_amp |-> Rat(0), finish_amp |-> Rat(0)] :
        f \in 0..MaxFreq, a \in Amplitudes, b \in Biases, w \in PulseWidths,
        m \in BOOLEAN, d \in CallDurations(form, "pulse")}
    \cup
    \* __white_noise checks the frequency 1
    {[op |-> "white_noise", form |-> form, frequency |-> 1, amplitude |-> a,
      bias |-> b, pulsewidth |-> DefaultPulseWidth, fm_lfo |-> FALSE, duration |-> d,
      start_amp |-> Rat(0), finish_amp |-> Rat(0)] :
        a \in Amplitudes, b \in Biases, d \in CallDurations(form, "white_noise")}
    \cup
    {[op |-> "linear", form |-> form, frequency |-> 1, amplitude |-> Rat(1),
      bias |-> Rat(0), pulsewidth |-> DefaultPulseWidth, fm_lfo |-> FALSE,
      duration |-> d, start_amp |-> x, finish_amp |-> y] :
        d \in Durations, x \in {Rat(0), Rat(1)}, y \in {Rat(0), Rat(1)}}

NoCall ==
    [op |-> "none", form |-> "none", frequency |-> 1, amplitude |-> Rat(1),
     bias |-> Rat(0), pulsewidth |-> DefaultPulseWidth, fm_lfo |-> FALSE,
     duration |-> Rat(0), start_amp |-> Rat(0), finish_amp |-> Rat(0)]

FacadeInit ==
    /\ fCall = NoCall
    /\ fPc = "idle"
    /\ fBuf = <<>>
    /\ fErr = "none"
    /\ fYielded = 0

otherThanFacade == <<envVars, delayVars, chainVars, echoVars, oscVars, clipVars>>

\* __check_and_get_scale: one of its three assertions fails
CheckFails(freq, amplitude, bias) ==
    \/ ~(2 * freq <= FacadeRate)
    \/ ~(RLe(Rat(0), amplitude) /\ RLe(amplitude, Rat(1)))
    \/ ~(RLe(Rat(-1), bias) /\ RLe(bias, Rat(1)))

\* int(duration*self.samplerate)
NumSamples(call) == PyInt(RMul(call.duration, Rat(FacadeRate)))

\* the oscillator class __sine .. __white_noise choose
WaveClass(call) ==
    CASE call.op = "sine" -> IF call.fm_lfo THEN "Sine" ELSE "FastSine"
      [] call.op = "square" -> IF call.fm_lfo THEN "Square" ELSE "FastSquare"
      [] call.op = "triangle" -> IF call.fm_lfo THEN "Triangle" ELSE "FastTriangle"
      [] call.op = "sawtooth" -> IF call.fm_lfo THEN "Sawtooth" ELSE "FastSawtooth"
      [] call.op = "pulse" -> IF call.fm_lfo THEN "Pulse" ELSE "FastPulse"
      [] call.op = "square_h" -> "SquareH"
      [] call.op = "sawtooth_h" -> "SawtoothH"
      [] call.op = "harmonics" -> "Harmonics"
      [] call.op = "white_noise" -> "WhiteNoise"
      [] call.op = "linear" -> "Linear"

\* the exception self.__<op>(...) raises, or "none" when it returns the oscillator
BuildWave(call) ==
    IF call.op = "linear"
    THEN \* increment = (finish_amp - start_amp) / (num_samples - 1)
         IF DivRaises(Rat(NumSamples(call) - 1)) THEN "ZeroDivisionError" ELSE "none"
    ELSE IF call.op = "pulse"
              /\ ~(RLe(Rat(0), call.pulsewidth) /\ RLe(call.pulsewidth, Rat(1)))
         THEN "AssertionError"
         ELSE IF CheckFails(call.frequency, call.amplitude, call.bias)
              THEN "AssertionError" ELSE "none"

\* the exception the first next(wave) raises, or "none": the generators of the Fast
\* classes start with phase/frequency or samplerate/frequency, that of Harmonics
\* with samplerate/2/frequency
FirstPull(call) ==
    IF /\ WaveClass(call) \in {"FastSine", "FastSquare", "FastTriangle", "FastSawtooth",
                               "FastPulse", "Harmonics", "SquareH", "SawtoothH"}
       /\ DivRaises(Rat(call.frequency))
    THEN "ZeroDivisionError" ELSE "none"

\* for _ in range(int(duration*self.samplerate)): samples.append(int(next(wave)))
RenderSample(call) == [i \in 1..NumSamples(call) |-> i]

\* sine(...), square(...), ..., linear(...): build the wave and render it
FacadeRender(call) ==
    /\ fPc = "idle"
    /\ fCall' = call
    /\ fYielded' = 0
    /\ IF BuildWave(call) # "none"
       THEN fPc' = "raised" /\ fErr' = BuildWave(call) /\ fBuf' = <<>>
       ELSE IF NumSamples(call) >= 1 /\ FirstPull(call) # "none"
            THEN fPc' = "raised" /\ fErr' = FirstPull(call) /\ fBuf' = <<>>
            ELSE fPc' = "returned" /\ fErr' = "none" /\ fBuf' = RenderSample(call)
    /\ UNCHANGED otherThanFacade

\* sine_gen(...), ..., linear_gen(...): calling a generator function runs none of
\* its body and returns the generator
FacadeGenCall(call) ==
    /\ fPc = "idle"
    /\ fCall' = call
    /\ fPc' = "gen_created"
    /\ UNCHANGED <<fBuf, fErr, fYielded>>
    /\ UNCHANGED otherThanFacade

\* next() on the generator: its first pull runs the body from the start.  The body
\* builds the wave and calls next(wave) on the oscillator itself, which is an
\* iterable and no iterator (OscillatorBase defines __iter__ only): TypeError.
\* linear_gen pulls inside range(int(duration*self.samplerate)) and returns at
\* once when that range is empty.  No *_gen generator yields a sample.
FacadeGenNext ==
    /\ fPc = "gen_created"
    /\ IF BuildWave(fCall) # "none"
       THEN fPc' = "gen_raised" /\ fErr' = BuildWave(fCall)
       ELSE IF fCall.op = "linear" /\ NumSamples(fCall) <= 0
            THEN fPc' = "gen_done" /\ UNCHANGED fErr
            ELSE fPc' = "gen_raised" /\ fErr' = "TypeError"
    /\ UNCHANGED <<fCall, fBuf, fYielded>>
    /\ UNCHANGED otherThanFacade

----------------------------------------------------------------------------
(* OscillatorBase.envelope: the wrapper generator, one action per          *)
(* statement group.  A pull (next() on the generator) runs these steps     *)
(* until one of them yields; it is not one action because the code can     *)
(* loop between two yields.                                                *)

\* sample rate of the oscillators the envelope is tried on
EnvRate == 2
\* durations are multiples of 1/(EnvGrid*EnvRate) seconds: fractions of a sample
EnvGrid == 2
\* the longest segment, in those units
MaxSeg == 3
\* pulls made on one envelope generator
MaxPulls == 6

Segments == {"Attack", "Decay", "Sustain", "Release"}
EnvDurations == {Norm(k, EnvGrid * EnvRate) : k \in 0..MaxSeg}
EnvLevels == {Rat(0), <<1, 2>>, Rat(1)}

\* the arguments envelope() accepts: its two assertions hold
EnvelopeArgs ==
    {a \in [attack : EnvDurations, decay : EnvDurations, sustain : EnvDurations,
            sustain_level : EnvLevels, release : EnvDurations,
            stop_at_end : BOOLEAN, cycle : BOOLEAN, samplerate : {EnvRate}] :
        /\ RLe(Rat(0), a.attack) /\ RLe(Rat(0), a.decay)
        /\ RLe(Rat(0), a.sustain) /\ RLe(Rat(0), a.release)
        /\ RLe(Rat(0), a.sustain_level) /\ RLe(a.sustain_level, Rat(1))}

end_time_decay == RAdd(envArgs.attack, envArgs.decay)
end_time_sustain == RAdd(end_time_decay, envArgs.sustain)
end_time_release == RAdd(end_time_sustain, envArgs.release)
increment == <<1, envArgs.samplerate>>

NoSegCount == [s \in Segments |-> 0]

EnvInit ==
    /\ envArgs \in EnvelopeArgs
    /\ envPc = "top"
    /\ time = Rat(0)
    /\ amp = Rat(0)
    /\ amp_change = Rat(0)
    /\ envPulling = FALSE
    /\ envOut = Rat(0)
    /\ envEmitted = 0
    /\ envSrcPos = 0
    /\ envSilence = 0
    /\ envSeg = "None"
    /\ envSegEmit = NoSegCount
    /\ envSegPull = NoSegCount
    /\ envErr = "none"

EnvIdle ==
    /\ envArgs = [attack |-> Rat(0), decay |-> Rat(0), sustain |-> Rat(0),
                  sustain_level |-> Rat(0), release |-> Rat(0),
                  stop_at_end |-> TRUE, cycle |-> FALSE, samplerate |-> EnvRate]
    /\ envPc = "returned"
    /\ time = Rat(0)
    /\ amp = Rat(0)
    /\ amp_change = Rat(0)
    /\ envPulling = FALSE
    /\ envOut = Rat(0)
    /\ envEmitted = 0
    /\ envSrcPos = 0
    /\ envSilence = 0
    /\ envSeg = "None"
    /\ envSegEmit = NoSegCount
    /\ envSegPull = NoSegCount
    /\ envErr = "none"

otherThanEnv == <<facadeVars, delayVars, chainVars, echoVars, oscVars, clipVars>>

\* a yield that reuses the last source sample instead of pulling one
EnvYieldNoPull(seg, gain) ==
    /\ envOut' = RMul(Src(envSrcPos), gain)
    /\ envSrcPos' = envSrcPos
    /\ envEmitted' = envEmitted + 1
    /\ envSeg' = seg
    /\ envSegEmit' = [envSegEmit EXCEPT ![seg] = @ + 1]
    /\ envSegPull' = envSegPull
    /\ envPulling' = FALSE
    /\ UNCHANGED envSilence

\* `yield next(oscillator)*gain` in segment seg
EnvYield(seg, gain) ==
    /\ envOut' = RMul(Src(envSrcPos), gain)
    /\ envSrcPos' = envSrcPos + 1
    /\ envEmitted' = envEmitted + 1
    /\ envSeg' = seg
    /\ envSegEmit' = [envSegEmit EXCEPT ![seg] = @ + 1]
    /\ envSegPull' = [envSegPull EXCEPT ![seg] = @ + 1]
    /\ envPulling' = FALSE
    /\ UNCHANGED envSilence

\* a step that yields nothing
EnvNoYield ==
    UNCHANGED <<envOut, envSrcPos, envEmitted, envSilence, envSeg, envSegEmit,
                envSegPull, envPulling>>

\* an exception leaves the generator
EnvRaise(e) ==
    /\ envErr' = e
    /\ envPc' = "raised"
    /\ envPulling' = FALSE
    /\ UNCHANGED <<envArgs, time, amp, amp_change, envOut, envSrcPos, envEmitted,
                   envSilence, envSeg, envSegEmit, envSegPull>>
    /\ UNCHANGED otherThanEnv

\* the consumer calls next() on the generator
EnvNext ==
    /\ ~envPulling
    /\ envPc \notin {"returned", "raised"}
    /\ envEmitted + envSilence < MaxPulls
    /\ envPulling' = TRUE
    /\ UNCHANGED <<envArgs, envPc, time, amp, amp_change, envOut, envEmitted,
                   envSrcPos, envSilence, envSeg, envSegEmit, envSegPull, envErr>>
    /\ UNCHANGED otherThanEnv

\* while True: time = 0.0; end_time_... ; increment = 1/self.samplerate
EnvTop ==
    /\ envPulling /\ envPc = "top"
    /\ time' = Rat(0)
    /\ envPc' = "if_attack"
    /\ envSeg' = "None"
    /\ envSegEmit' = NoSegCount
    /\ envSegPull' = NoSegCount
    /\ UNCHANGED <<envArgs, amp, amp_change, envPulling, envOut, envEmitted,
                   envSrcPos, envSilence, envErr>>
    /\ UNCHANGED otherThanEnv

\* if attack: amp_change = 1/attack*increment; amp = 0.0
EnvIfAttack ==
    /\ envPulling /\ envPc = "if_attack"
    /\ IF Truthy(envArgs.attack)
       THEN IF DivRaises(envArgs.attack)
            THEN EnvRaise("ZeroDivisionError")
            ELSE /\ amp_change' = RMul(RDiv(Rat(1), envArgs.attack), increment)
                 /\ amp' = Rat(0)
                 /\ envPc' = "while_attack"
                 /\ EnvNoYield
                 /\ UNCHANGED <<envArgs, time, envErr>>
                 /\ UNCHANGED otherThanEnv
       ELSE /\ envPc' = "if_decay"
            /\ EnvNoYield
            /\ UNCHANGED <<envArgs, time, amp, amp_change, envErr>>
            /\ UNCHANGED otherThanEnv

\* while time < attack: yield next(oscillator)*amp; amp += amp_change; time += increment
EnvWhileAttack ==
    /\ envPulling /\ envPc = "while_attack"
    /\ IF RLt(time, envArgs.attack)
       THEN /\ EnvYield("Attack", amp)
            /\ amp' = RAdd(amp, amp_change)
            /\ time' = RAdd(time, increment)
            /\ UNCHANGED <<envArgs, envPc, amp_change, envErr>>
       ELSE /\ envPc' = "if_decay"
            /\ EnvNoYield
            /\ UNCHANGED <<envArgs, time, amp, amp_change, envErr>>
    /\ UNCHANGED otherThanEnv

\* if decay: amp = 1.0; amp_change = (sustain_level-1)/decay*increment
EnvIfDecay ==
    /\ envPulling /\ envPc = "if_decay"
    /\ IF Truthy(envArgs.decay)
       THEN IF DivRaises(envArgs.decay)
            THEN EnvRaise("ZeroDivisionError")
            ELSE /\ amp' = Rat(1)
                 /\ amp_change' = RMul(RDiv(RSub(envArgs.sustain_level, Rat(1)),
                                            envArgs.decay), increment)
                 /\ envPc' = "while_decay"
                 /\ EnvNoYield
                 /\ UNCHANGED <<envArgs, time, envErr>>
                 /\ UNCHANGED otherThanEnv
       ELSE /\ envPc' = "while_sustain"
            /\ EnvNoYield
            /\ UNCHANGED <<envArgs, time, amp, amp_change, envErr>>
            /\ UNCHANGED otherThanEnv

\* while time < end_time_decay: yield next(oscillator)*amp; amp += amp_change; time += increment
EnvWhileDecay ==
    /\ envPulling /\ envPc = "while_decay"
    /\ IF RLt(time, end_time_decay)
       THEN /\ EnvYield("Decay", amp)
            /\ amp' = RAdd(amp, amp_change)
            /\ time' = RAdd(time, increment)
            /\ UNCHANGED <<envArgs, envPc, amp_change, envErr>>
       ELSE /\ envPc' = "while_sustain"
            /\ EnvNoYield
            /\ UNCHANGED <<envArgs, time, amp, amp_change, envErr>>
    /\ UNCHANGED otherThanEnv

\* the test of `while time < end_time_sustain`
SustainContinues == RLt(time, end_time_sustain)

\* while time < end_time_sustain: yield next(oscillator)*sustain_level; time += increment
EnvWhileSustain ==
    /\ envPulling /\ envPc = "while_sustain"
    /\ IF SustainContinues
       THEN /\ EnvYield("Sustain", envArgs.sustain_level)
            /\ time' = RAdd(time, increment)
            /\ UNCHANGED <<envArgs, envPc, amp, amp_change, envErr>>
       ELSE /\ envPc' = "if_release"
            /\ EnvNoYield
            /\ UNCHANGED <<envArgs, time, amp, amp_change, envErr>>
    /\ UNCHANGED otherThanEnv

\* if release: amp = sustain_level; amp_change = (-sustain_level)/release*increment
EnvIfRelease ==
    /\ envPulling /\ envPc = "if_release"
    /\ IF Truthy(envArgs.release)
       THEN IF DivRaises(envArgs.release)
            THEN EnvRaise("ZeroDivisionError")
            ELSE /\ amp' = envArgs.sustain_level
                 /\ amp_change' = RMul(RDiv(RNeg(envArgs.sustain_level),
                                            envArgs.release), increment)
                 /\ envPc' = "while_release"
                 /\ EnvNoYield
                 /\ UNCHANGED <<envArgs, time, envErr>>
                 /\ UNCHANGED otherThanEnv
       ELSE /\ envPc' = "if_cycle"
            /\ EnvNoYield
            /\ UNCHANGED <<envArgs, time, amp, amp_change, envErr>>
            /\ UNCHANGED otherThanEnv

\* while time < end_time_release: yield next(oscillator)*amp; amp += amp_change; time += increment
EnvWhileRelease ==
    /\ envPulling /\ envPc = "while_release"
    /\ IF RLt(time, end_time_release)
       THEN /\ EnvYield("Release", amp)
            /\ amp' = RAdd(amp, amp_change)
            /\ time' = RAdd(time, increment)
            /\ UNCHANGED <<envArgs, envPc, amp_change, envErr>>
       ELSE /\ envPc' = "release_tail"
            /\ EnvNoYield
            /\ UNCHANGED <<envArgs, time, amp, amp_change, envErr>>
    /\ UNCHANGED otherThanEnv

\* if amp > 0: yield next(oscillator)*amp   (still inside `if release:`)
EnvReleaseTail ==
    /\ envPulling /\ envPc = "release_tail"
    /\ IF RLt(Rat(0), amp)
       THEN EnvYield("Release", amp)
       ELSE EnvNoYield
    /\ envPc' = "if_cycle"
    /\ UNCHANGED <<envArgs, time, amp, amp_change, envErr>>
    /\ UNCHANGED otherThanEnv

\* `break` taken whatever cycle is
AfterReleaseBreaks(cycle) == "if_stop"
\* the target of `if not cycle: break`
AfterRelease(cycle) == IF ~cycle THEN "if_stop" ELSE "top"

\* if not cycle: break
EnvIfCycle ==
    /\ envPulling /\ envPc = "if_cycle"
    /\ envPc' = AfterRelease(envArgs.cycle)
    /\ EnvNoYield
    /\ UNCHANGED <<envArgs, time, amp, amp_change, envErr>>
    /\ UNCHANGED otherThanEnv

\* if not stop_at_end: (silence) -- otherwise the generator returns: StopIteration
EnvIfStop ==
    /\ envPulling /\ envPc = "if_stop"
    /\ IF ~envArgs.stop_at_end
       THEN /\ envPc' = "silence"
            /\ envPulling' = envPulling
       ELSE /\ envPc' = "returned"
            /\ envPulling' = FALSE
    /\ UNCHANGED <<envArgs, time, amp, amp_change, envOut, envSrcPos, envEmitted,
                   envSilence, envSeg, envSegEmit, envSegPull, envErr>>
    /\ UNCHANGED otherThanEnv

\* while True: yield 0.0
EnvSilence ==
    /\ envPulling /\ envPc = "silence"
    /\ envOut' = Rat(0)
    /\ envSilence' = envSilence + 1
    /\ envPulling' = FALSE
    /\ UNCHANGED <<envArgs, envPc, time, amp, amp_change, envSrcPos, envEmitted,
                   envSeg, envSegEmit, envSegPull, envErr>>
    /\ UNCHANGED otherThanEnv

\* the steps the interpreter takes inside a pull
EnvStep ==
    \/ EnvTop \/ EnvIfAttack \/ EnvWhileAttack \/ EnvIfDecay \/ EnvWhileDecay
    \/ EnvWhileSustain \/ EnvIfRelease \/ EnvWhileRelease \/ EnvReleaseTail
    \/ EnvIfCycle \/ EnvIfStop \/ EnvSilence

----------------------------------------------------------------------------
(* What Python lets one do with the objects of the module. *)

\* the classes of this module that derive from OscillatorBase
OscillatorClasses == {"Primitive", "FilteredOscillator", "EchoingOscillator"}

\* next(x) needs x.__next__: generators and tee iterators have it, OscillatorBase
\* defines __iter__ alone
IsIterator(kind) == kind \in {"generator", "tee"}

----------------------------------------------------------------------------
(* OscillatorBase.delay: the delayfunc generator; one action is one pull. *)

\* the highest sample rate a delayed oscillator is given
MaxDelayRate == 3
\* offsets are multiples of 1/DelayGrid seconds
DelayGrid == 4
\* the longest offset, either way, in those units
MaxDelay == 4
\* pulls made on one delay generator
MaxDelayPulls == 7

DelayArgs ==
    [seconds : {Norm(k, DelayGrid) : k \in (-MaxDelay)..MaxDelay},
     samplerate : 1..MaxDelayRate]

\* delay() wraps self: FilteredOscillator(self, delayfunc) hands the oscillator
\* object itself, not an iterator over it, to delayfunc
DelaySource == "Primitive"

DelayInit ==
    /\ dArgs \in DelayArgs
    /\ dPc = "start"
    /\ dCount = 0
    /\ dOut = <<>>
    /\ dSrcPos = 0
    /\ dErr = "none"

otherThanDelay == <<facadeVars, envVars, chainVars, echoVars, oscVars, clipVars>>

\* range(int(-self.samplerate*seconds))
SkipCount(args) == PyInt(RMul(Rat(-args.samplerate), args.seconds))

\* a silence one sample too long
SilenceCountOneMore(args) == PyInt(RMul(Rat(args.samplerate), args.seconds)) + 1
\* range(int(self.samplerate*seconds))
SilenceCount(args) == PyInt(RMul(Rat(args.samplerate), args.seconds))

\* seconds < 0: for _ in range(...): next(oscillator); then yield from oscillator
DelaySkipAhead ==
    /\ dPc = "start"
    /\ RLt(dArgs.seconds, Rat(0))
    /\ Len(dOut) < MaxDelayPulls
    /\ IF SkipCount(dArgs) >= 1 /\ ~IsIterator(DelaySource)
       THEN \* next() of an object that is no iterator
            /\ dErr' = "TypeError"
            /\ dPc' = "raised"
            /\ UNCHANGED <<dCount, dOut, dSrcPos>>
       ELSE /\ dCount' = SkipCount(dArgs)
            /\ dOut' = Append(dOut, Src(dSrcPos + SkipCount(dArgs)))
            /\ dSrcPos' = dSrcPos + SkipCount(dArgs) + 1
            /\ dPc' = "relay"
            /\ UNCHANGED dErr
    /\ UNCHANGED dArgs
    /\ UNCHANGED otherThanDelay

\* seconds >= 0: for _ in range(...): yield 0.0
DelaySilence ==
    /\ dPc \in {"start", "silence"}
    /\ ~RLt(dArgs.seconds, Rat(0))
    /\ dCount < SilenceCount(dArgs)
    /\ Len(dOut) < MaxDelayPulls
    /\ dOut' = Append(dOut, Rat(0))
    /\ dCount' = dCount + 1
    /\ dPc' = "silence"
    /\ UNCHANGED <<dArgs, dSrcPos, dErr>>
    /\ UNCHANGED otherThanDelay

\* yield from oscillator: iter(oscillator) starts the source, each pull relays one sample
DelayRelay ==
    /\ \/ dPc = "relay"
       \/ /\ dPc \in {"start", "silence"}
          /\ ~RLt(dArgs.seconds, Rat(0))
          /\ dCount >= SilenceCount(dArgs)
    /\ Len(dOut) < MaxDelayPulls
    /\ dOut' = Append(dOut, Src(dSrcPos))
    /\ dSrcPos' = dSrcPos + 1
    /\ dPc' = "relay"
    /\ UNCHANGED <<dArgs, dCount, dErr>>
    /\ UNCHANGED otherThanDelay

----------------------------------------------------------------------------
(* The combinators of OscillatorBase: what each call returns, and what a   *)
(* further call on that result does.                                       *)

\* combinator calls made one after the other
MaxChain == 3

Combinators ==
    {"envelope", "mix", "modulate_amp", "delay", "abs", "custom", "clip", "echo"}

\* the class of the object each combinator returns: mix and modulate_amp contain
\* yield, so calling them returns a generator
CombinatorResult(c) ==
    CASE c \in {"envelope", "delay", "abs", "custom", "clip"} -> "FilteredOscillator"
      [] c = "echo" -> "EchoingOscillator"
      [] c \in {"mix", "modulate_amp"} -> "generator"

ChainInit ==
    /\ chObj = "Primitive"
    /\ chOps = <<>>
    /\ chErr = "none"

otherThanChain == <<facadeVars, envVars, delayVars, echoVars, oscVars, clipVars>>

\* obj.c(...) on the object the chain has produced so far
Combine(c) ==
    /\ chErr = "none"
    /\ Len(chOps) < MaxChain
    /\ chOps' = Append(chOps, c)
    /\ IF chObj \in OscillatorClasses
       THEN /\ chObj' = CombinatorResult(c)
            /\ UNCHANGED chErr
       ELSE \* 'generator' object has no attribute c
            /\ chErr' = "AttributeError"
            /\ UNCHANGED chObj
    /\ UNCHANGED otherThanChain


----------------------------------------------------------------------------
(* EchoingOscillator: __init__ and the generator; one action is one pull. *)

\* sample rate of the oscillators echo is tried on
EchoRate == 2
\* after and delay are multiples of 1/(EchoGrid*EchoRate) seconds
EchoGrid == 2
\* the longest `after`, in those units
MaxAfter == 3
\* the longest delay between two echos, in those units
MaxEchoDelay == 3
\* the most echos asked for
MaxAmount == 3
\* pulls made on one echo generator
MaxEchoPulls == 7

\* the threshold 0.000001 of __init__ is 1/InaudibleDen
InaudibleDen == 1000000

RECURSIVE RPow(_, _)
\* amp = decay; amp *= decay, k - 1 times (and 1 for the undecayed branch 0)
RPow(x, k) == IF k = 0 THEN Rat(1) ELSE RMul(x, RPow(x, k - 1))

RECURSIVE LogCap(_, _)
\* int(log(0.000001, decay)) for 0 < decay < 1: the largest k, from k0 on, with
\* decay^k >= 0.000001
LogCap(decay, k0) ==
    IF RLt(RPow(decay, k0 + 1), <<1, InaudibleDen>>) THEN k0 ELSE LogCap(decay, k0 + 1)

\* if decay < 1: amount = int(min(amount, log(0.000001, decay)))
EchoAmount(amount, decay) ==
    IF RLt(decay, Rat(1))
    THEN IF amount <= LogCap(decay, 0) THEN amount ELSE LogCap(decay, 0)
    ELSE amount

EchoDecays == {<<1, 200>>, <<1, 2>>, Rat(1), Rat(2)}

\* the fields __init__ leaves in the object, and the amount it was called with
EchoObjects ==
    {[after |-> Norm(a, EchoGrid * EchoRate), asked |-> n, amount |-> EchoAmount(n, c),
      delay |-> Norm(d, EchoGrid * EchoRate), decay |-> c, samplerate |-> EchoRate] :
        a \in 0..MaxAfter, n \in 0..MaxAmount, d \in (-1)..MaxEchoDelay,
        c \in EchoDecays}

EchoInit ==
    /\ eArgs \in EchoObjects
    /\ ePc = "after"
    /\ eOut = <<>>
    /\ eSrcPos = 0
    /\ eCur = [k \in 0..eArgs.amount |-> 0]
    /\ eZeros = [k \in 0..eArgs.amount |-> 0]

otherThanEcho == <<facadeVars, envVars, delayVars, chainVars, oscVars, clipVars>>

\* range(int(self.samplerate*self._after))
AfterCount(args) == PyInt(RMul(Rat(args.samplerate), args.after))

\* echo_delay of echo k in samples: samplerate * (delay + ... + delay), k terms
BranchSamples(args, k) == RMul(Rat(args.samplerate), RMul(Rat(k), args.delay))

\* echo k raises at its first pull: delay(echo_delay) with echo_delay < 0 calls
\* next() on the FilteredOscillator it wraps
BranchRaises(args, k) ==
    /\ k >= 1
    /\ RLt(args.delay, Rat(0))
    /\ PyInt(RNeg(BranchSamples(args, k))) >= 1

\* every echo delayed by the same whole number of samples more than the one before
BranchZerosOfMultiples(args, k) ==
    IF k = 0 \/ RLt(args.delay, Rat(0)) THEN 0
    ELSE k * PyInt(RMul(Rat(args.samplerate), args.delay))
\* the zeros echo k yields first: range(int(self.samplerate*seconds)) in delay()
BranchZeros(args, k) ==
    IF k = 0 \/ RLt(args.delay, Rat(0)) THEN 0 ELSE PyInt(BranchSamples(args, k))

\* every echo reading a source of its own instead of a branch of the tee
BranchPullOwnSource(args, k, st) ==
    IF st.zeros[k] < BranchZeros(args, k)
    THEN [st EXCEPT !.zeros[k] = @ + 1]
    ELSE LET idx == AfterCount(args) + st.cur[k]
         IN  [st EXCEPT !.sum = RAdd(@, RMul(Src(idx), RPow(args.decay, k))),
                        !.cur[k] = @ + 1,
                        !.src = @ + 1]
\* next(echo) for echo k, in a state st = [sum, src, cur, zeros]: a zero of its
\* delay, or the next item of its tee iterator times decay^k; the shared source
\* is advanced when no other echo has fetched that item yet
BranchPull(args, k, st) ==
    IF st.zeros[k] < BranchZeros(args, k)
    THEN [st EXCEPT !.zeros[k] = @ + 1]
    ELSE LET idx == AfterCount(args) + st.cur[k]
         IN  [st EXCEPT !.sum = RAdd(@, RMul(Src(idx), RPow(args.decay, k))),
                        !.cur[k] = @ + 1,
                        !.src = IF idx >= @ THEN idx + 1 ELSE @]

RECURSIVE SumEchos(_, _, _)
\* sum([next(echo) for echo in echos]), echo k onwards
SumEchos(args, k, st) ==
    IF k > args.amount THEN st ELSE SumEchos(args, k + 1, BranchPull(args, k, st))

\* for _ in range(int(self.samplerate*self._after)): yield next(oscillator)
EchoReplay ==
    /\ ePc = "after"
    /\ Len(eOut) < AfterCount(eArgs)
    /\ Len(eOut) < MaxEchoPulls
    /\ eOut' = Append(eOut, Src(eSrcPos))
    /\ eSrcPos' = eSrcPos + 1
    /\ UNCHANGED <<eArgs, ePc, eCur, eZeros>>
    /\ UNCHANGED otherThanEcho

\* the echos are set up (at the first pull after the replay) and summed
EchoMix ==
    /\ \/ ePc = "mixing"
       \/ ePc = "after" /\ Len(eOut) >= AfterCount(eArgs)
    /\ Len(eOut) < MaxEchoPulls
    /\ IF \E k \in 1..eArgs.amount : BranchRaises(eArgs, k)
       THEN /\ ePc' = "raised"
            /\ UNCHANGED <<eOut, eSrcPos, eCur, eZeros>>
       ELSE LET st == SumEchos(eArgs, 0, [sum |-> Rat(0), src |-> eSrcPos,
                                         cur |-> eCur, zeros |-> eZeros])
            IN  /\ eOut' = Append(eOut, st.sum)
                /\ eSrcPos' = st.src
                /\ eCur' = st.cur
                /\ eZeros' = st.zeros
                /\ ePc' = "mixing"
    /\ UNCHANGED eArgs
    /\ UNCHANGED otherThanEcho

----------------------------------------------------------------------------
(* The primitive oscillators.  An oscillator object is built directly or   *)
(* by the facade; every iter() on it runs generator() afresh.  What        *)
(* __init__ stored in the object is shared by the generators running over  *)
(* it, the locals of generator() are their own.  One action is one next()  *)
(* on one generator; a facade render pulls with int(next(wave)).           *)

\* self.samplerate of the oscillators tried
OscRates == {4}
\* frequencies 0..MaxOscFreq Hz are tried
MaxOscFreq == 2
\* pulls made on the generators of one behaviour
MaxOscPulls == 4
\* samplewidth of the WaveSynth that builds an oscillator (2 or 4 are accepted)
SampleWidth == 2
\* num_harmonics 1..MaxHarmonics are tried
MaxHarmonics == 3

\* the generators running in one behaviour
Gens == 1..2

\* sys.float_info.epsilon is 2^-52, far below the spacing of the numbers tried
\* here: a quantity that may differ from such a number by epsilon is kept as
\* <<x, e>>, standing for x + e*epsilon, and ordered first by x and then by e
Epsilon == <<Rat(0), 1>>
\* 1.0-epsilon
OneMinusEpsilon == <<Rat(1), -1>>
\* a < b
ELt(a, b) == RLt(a[1], b[1]) \/ (a[1] = b[1] /\ a[2] < b[2])
\* Python: a % 1, which is a - floor(a)
EModOne(a) ==
    LET f == RSub(a[1], Rat(Floor(a[1])))
    IN  IF f = Rat(0) /\ a[2] < 0 THEN <<Rat(1), a[2]>> ELSE <<f, a[2]>>

\* scale = 2 ** (self.samplewidth * 8 - 1) - 1
Scale == 2 ^ (SampleWidth * 8 - 1) - 1

\* an LFO is the sequence it repeats for ever; <<>> is None
StreamAt(lfo, pos) == lfo[(pos % Len(lfo)) + 1]
FmSources == {<<>>, <<Rat(1), Rat(0)>>, <<Rat(-1), Rat(2), Rat(0)>>}
PwmSources == {<<>>, <<Rat(0), <<1, 2>>, Rat(1)>>, <<Rat(-1), Rat(2)>>}
\* amplitude and bias as the caller gives them
Levels == {<<Rat(1), Rat(0)>>, <<<<1, 2>>, <<1, 4>>>>}
\* phase, and the multiple of epsilon added to it
Phases == {<<Rat(0), 0>>, <<Rat(0), -1>>, <<<<-1, 4>>, 0>>, <<<<1, 2>>, 0>>}
OscPulseWidths == {Rat(0), <<1, 4>>, Rat(1)}

\* the object a class constructor leaves, built by the facade (which scales
\* amplitude and bias) or directly
Oscillator(cls, facade, f, lv, ph, pw, fm, pwm, r) ==
    [cls |-> cls, facade |-> facade, frequency |-> f,
     amplitude |-> IF facade THEN RMul(lv[1], Rat(Scale)) ELSE lv[1],
     bias |-> IF facade THEN RMul(lv[2], Rat(Scale)) ELSE lv[2],
     phase |-> ph[1], phase_eps |-> ph[2], pulsewidth |-> pw,
     fm_lfo |-> fm, pwm_lfo |-> pwm, samplerate |-> r,
     num_harmonics |-> 0, only_even |-> FALSE, only_odd |-> FALSE,
     startlevel |-> Rat(0), increment |-> Rat(0), min_value |-> Rat(-1),
     max_value |-> Rat(1)]

\* __pulse: Pulse if fm_lfo else FastPulse, after the checks; and the two built
\* directly
PulseObjects ==
    {Oscillator(IF fm # <<>> THEN "Pulse" ELSE "FastPulse", TRUE, f, lv, ph, pw, fm,
                pwm, r) :
        f \in {f \in 0..MaxOscFreq : \A r \in OscRates : 2 * f <= r}, lv \in Levels,
        ph \in Phases, pw \in OscPulseWidths, fm \in FmSources, pwm \in PwmSources,
        r \in OscRates}
    \cup
    {Oscillator("Pulse", FALSE, f, lv, ph, pw, fm, pwm, r) :
        f \in 0..MaxOscFreq, lv \in Levels, ph \in Phases, pw \in OscPulseWidths,
        fm \in FmSources, pwm \in PwmSources, r \in OscRates}
    \cup
    {Oscillator("FastPulse", FALSE, f, lv, ph, pw, <<>>, pwm, r) :
        f \in 0..MaxOscFreq, lv \in Levels, ph \in Phases, pw \in OscPulseWidths,
        pwm \in PwmSources, r \in OscRates}

\* Harmonics.__init__, and SquareH and SawtoothH which call it with only_odd=True
\* and with phase+0.5
HarmonicsOf(cls, o, n, even, odd) ==
    [o EXCEPT !.cls = cls,
              !.num_harmonics = n,
              !.only_even = even,
              !.only_odd = IF cls = "SquareH" THEN TRUE ELSE odd,
              !.phase = IF cls = "SawtoothH" THEN RAdd(@, <<1, 2>>) ELSE @]

\* __harmonics, __square_h, __sawtooth_h after the checks, and the three classes
\* built directly
HarmonicsObjects ==
    {HarmonicsOf("Harmonics", Oscillator("Harmonics", fc, f, lv, ph, Rat(0), fm, <<>>, r),
                 n, v[1], v[2]) :
        fc \in BOOLEAN, f \in 0..MaxOscFreq, lv \in Levels,
        ph \in {p \in Phases : p[2] = 0}, fm \in FmSources, r \in OscRates,
        n \in 1..MaxHarmonics, v \in BOOLEAN \X BOOLEAN}
    \cup
    {HarmonicsOf(cls, Oscillator(cls, fc, f, lv, ph, Rat(0), fm, <<>>, r),
                 n, FALSE, FALSE) :
        cls \in {"SquareH", "SawtoothH"},
        fc \in BOOLEAN, f \in 0..MaxOscFreq, lv \in Levels,
        ph \in {p \in Phases : p[2] = 0}, fm \in FmSources, r \in OscRates,
        n \in 1..MaxHarmonics}

\* the shapes that have an FM-capable class and a Fast class
Shapes == {"Sine", "Triangle", "Square", "Sawtooth"}
\* the Fast class of a shape
FastOf(shape) ==
    CASE shape = "Sine" -> "FastSine" [] shape = "Triangle" -> "FastTriangle"
      [] shape = "Square" -> "FastSquare" [] shape = "Sawtooth" -> "FastSawtooth"
      [] shape = "Pulse" -> "FastPulse"

\* __sine, __triangle, __square, __sawtooth: the FM-capable class if fm_lfo else
\* the Fast class, after the checks; and the eight classes built directly
WaveObjects ==
    {Oscillator(IF fm # <<>> THEN shape ELSE FastOf(shape), TRUE, f, lv, ph, Rat(0),
                fm, <<>>, r) :
        shape \in Shapes, f \in 0..MaxOscFreq, lv \in Levels,
        ph \in {p \in Phases : p[2] = 0}, fm \in FmSources, r \in OscRates}
    \cup
    {Oscillator(shape, FALSE, f, lv, ph, Rat(0), fm, <<>>, r) :
        shape \in Shapes, f \in 0..MaxOscFreq, lv \in Levels,
        ph \in {p \in Phases : p[2] = 0}, fm \in FmSources, r \in OscRates}
    \cup
    {Oscillator(FastOf(shape), FALSE, f, lv, ph, Rat(0), <<>>, <<>>, r) :
        shape \in Shapes, f \in 0..MaxOscFreq, lv \in Levels,
        ph \in {p \in Phases : p[2] = 0}, r \in OscRates}

\* Linear(startlevel, increment), min_value and max_value left at -1.0 and 1.0
LinearObjects ==
    {[Oscillator("Linear", FALSE, 0, <<Rat(0), Rat(0)>>, <<Rat(0), 0>>, Rat(0), <<>>,
                 <<>>, r) EXCEPT !.startlevel = s, !.increment = i] :
        s \in {Rat(0), <<-1, 2>>}, i \in {Rat(0), <<1, 2>>, <<-1, 2>>}, r \in OscRates}

\* the facade builds an object only when __check_and_get_scale passes
FacadeAccepts(o) == o.facade => 2 * o.frequency <= o.samplerate

OscObjects ==
    {o \in PulseObjects \cup HarmonicsObjects \cup WaveObjects \cup LinearObjects :
        FacadeAccepts(o)}

\* the FM-capable oscillator built with the arguments of a Fast one, and no FM
Counterpart(o) ==
    [o EXCEPT !.cls = CASE o.cls = "FastSine" -> "Sine"
                        [] o.cls = "FastTriangle" -> "Triangle"
                        [] o.cls = "FastSquare" -> "Square"
                        [] o.cls = "FastSawtooth" -> "Sawtooth"
                        [] o.cls = "FastPulse" -> "Pulse"]
\* the Fast oscillators, built directly, that take only a counterpart's arguments
FastObjects ==
    {o \in OscObjects : /\ o.cls \in {FastOf(shape) : shape \in Shapes \cup {"Pulse"}}
                        /\ ~o.facade
                        /\ o.pwm_lfo = <<>>}

\* a generator that has not run yet
NewGen ==
    [pc |-> "created", t |-> Rat(0), freq_previous |-> Rat(0),
     phase_correction |-> Rat(0), pwm |-> 0, out |-> <<>>, arg |-> <<>>,
     freq |-> <<>>, duty |-> <<>>, harm |-> <<>>, pcm |-> <<>>]

\* one object iterated by two generators, or a Fast oscillator and its
\* counterpart iterated by one generator each
OscInit ==
    /\ \/ \E o \in OscObjects : oObj = <<o, o>> /\ oOf = <<1, 1>>
       \/ \E o \in FastObjects : oObj = <<o, Counterpart(o)>> /\ oOf = <<1, 2>>
    /\ oFm = <<0, 0>>
    /\ oPwm = <<0, 0>>
    /\ oValue = <<oObj[1].startlevel, oObj[2].startlevel>>
    /\ oGen = [g \in Gens |-> NewGen]

otherThanOsc == <<facadeVars, envVars, delayVars, chainVars, echoVars, clipVars>>

\* the object generator g runs over
ObjOf(g) == oObj[oOf[g]]

\* pulls are made while the bound allows
MayPull(g) ==
    /\ oGen[g].pc \in {"created", "running"}
    /\ Len(oGen[1].out) + Len(oGen[2].out) < MaxOscPulls

\* self.fm = iter(fm_lfo or itertools.repeat(0.0))
FmStream(o) == IF o.fm_lfo = <<>> THEN <<Rat(0)>> ELSE o.fm_lfo
\* self.pwm = iter(pwm_lfo or itertools.repeat(pulsewidth))
PwmStream(o) == IF o.pwm_lfo = <<>> THEN <<o.pulsewidth>> ELSE o.pwm_lfo

\* what a pull leaves in the generator: the locals l and the sample y yielded; a
\* facade-built object is pulled by samples.append(int(next(wave)))
Yielded(g, l, y) ==
    [l EXCEPT !.pc = "running",
              !.out = Append(@, y),
              !.pcm = IF ObjOf(g).facade THEN Append(@, PyInt(y)) ELSE @]

\* the generator raises at its first pull
Raised(g, e) == [oGen EXCEPT ![g].pc = e]

RAbs(x) == <<Abs(x[1]), x[2]>>
\* Python: x % 1, which is x - floor(x)
RModOne(x) == RSub(x, Rat(Floor(x)))
\* Python: min(a, b) and max(a, b) of two floats
RMin(a, b) == IF RLt(b, a) THEN b ELSE a
RMax(a, b) == IF RLt(a, b) THEN b ELSE a

(* The FM-capable classes.  Their generators share these statements:       *)
(*     phase_correction = self._phase; freq_previous = self.frequency      *)
(*     increment = 1/self.samplerate; t = 0                                *)
(*     while True:                                                         *)
(*         freq = self.frequency*(1+next(self.fm))                         *)
(*         phase_correction += (freq_previous-freq)*t                      *)
(*         freq_previous = freq                                            *)
(*         tt = t*freq + phase_correction                                  *)
(*         yield <the sample at tt>                                        *)
(*         t += increment                                                  *)
(* In Sine and Harmonics the increment is 2*pi/self.samplerate and         *)
(* phase_correction starts at self._phase*2*pi.  A quantity in radians is  *)
(* kept as its multiple of 2*pi, which makes these the same numbers.       *)

\* the locals when the loop is entered
Started(g) ==
    IF oGen[g].pc = "created"
    THEN [oGen[g] EXCEPT !.phase_correction = ObjOf(g).phase,
                         !.freq_previous = Rat(ObjOf(g).frequency),
                         !.t = Rat(0)]
    ELSE oGen[g]

\* freq = self.frequency*(1+next(self.fm))
Freq(g) ==
    RMul(Rat(ObjOf(g).frequency),
         RAdd(Rat(1), StreamAt(FmStream(ObjOf(g)), oFm[oOf[g]])))

\* no correction of the phase when the frequency changes
PhaseCorrectionKept(l, freq) == l.phase_correction
\* phase_correction += (freq_previous-freq)*t
PhaseCorrection(l, freq) ==
    RAdd(l.phase_correction, RMul(RSub(l.freq_previous, freq), l.t))

\* tt = t*freq + phase_correction
FmArg(g) == RAdd(RMul(Started(g).t, Freq(g)), PhaseCorrection(Started(g), Freq(g)))

\* the locals after the turn of the loop; arg and freq keep, for the claims, the
\* argument and the frequency of every sample
FmLocals(g) ==
    [Started(g) EXCEPT !.freq_previous = Freq(g),
                       !.phase_correction = PhaseCorrection(Started(g), Freq(g)),
                       !.t = RAdd(@, <<1, ObjOf(g).samplerate>>),
                       !.arg = Append(@, FmArg(g)),
                       !.freq = Append(@, Freq(g))]

\* sin of x times 2*pi.  sin is exact at the multiples of a quarter turn, which
\* is where the sample rates, frequencies, phases and deviations tried keep
\* every argument.
SinTurn(x) ==
    LET f == RSub(x, Rat(Floor(x)))
    IN  CASE f = Rat(0) -> Rat(0)
          [] f = <<1, 4>> -> Rat(1)
          [] f = <<1, 2>> -> Rat(0)
          [] f = <<3, 4>> -> Rat(-1)

\* num_harmonics = min(self.num_harmonics, int(self.samplerate/2/self.frequency))
NumHarmonics(o) ==
    LET nyquist == PyInt(RDiv(RDiv(Rat(o.samplerate), Rat(2)), Rat(o.frequency)))
    IN  IF o.num_harmonics <= nyquist THEN o.num_harmonics ELSE nyquist

\* the k of the terms sin(q*k) that are summed: range(1, 2*num_harmonics, 2), or
\* 1 and range(2, 2*num_harmonics, 2), or range(1, 1+num_harmonics)
HarmonicIndices(o) ==
    LET n == NumHarmonics(o)
    IN  IF o.only_odd THEN {k \in 1..(2 * n - 1) : k % 2 = 1}
        ELSE IF o.only_even THEN {1} \cup {k \in 2..(2 * n - 1) : k % 2 = 0}
        ELSE 1..n

\* the term of harmonic k: sin(q*k)/k, sin(q)*0.7 or sin(q*k)/k/2
HarmonicTerm(o, q, k) ==
    IF o.only_odd THEN RDiv(SinTurn(RMul(q, Rat(k))), Rat(k))
    ELSE IF o.only_even
         THEN IF k = 1 THEN RMul(SinTurn(q), <<7, 10>>)
              ELSE RDiv(SinTurn(RMul(q, Rat(k))), Rat(k))
         ELSE RDiv(RDiv(SinTurn(RMul(q, Rat(k))), Rat(k)), Rat(2))

RECURSIVE HarmonicSum(_, _, _)
\* h, summed over the indices ks
HarmonicSum(o, q, ks) ==
    IF ks = {} THEN Rat(0)
    ELSE LET k == CHOOSE x \in ks : \A y \in ks : x <= y
         IN  RAdd(HarmonicTerm(o, q, k), HarmonicSum(o, q, ks \ {k}))

\* sin(t*freq+phase_correction)*self.amplitude+self.bias
SineSample(o, tt) == RAdd(RMul(SinTurn(tt), o.amplitude), o.bias)
\* 4*self.amplitude*(abs((tt+0.75) % 1 - 0.5)-0.25)+self.bias
TriangleSample(o, tt) ==
    RAdd(RMul(RMul(Rat(4), o.amplitude),
              RSub(RAbs(RSub(RModOne(RAdd(tt, <<3, 4>>)), <<1, 2>>)), <<1, 4>>)),
         o.bias)
\* a square with sloped edges
SquareSampleSloped(o, tt) == TriangleSample(o, tt)
\* (-self.amplitude if int(tt*2) % 2 else self.amplitude)+self.bias
SquareSample(o, tt) ==
    RAdd(IF PyInt(RMul(tt, Rat(2))) % 2 # 0 THEN RNeg(o.amplitude) ELSE o.amplitude,
         o.bias)
\* self.bias+self.amplitude*2*(tt - floor(0.5+tt))
SawtoothSample(o, tt) ==
    RAdd(o.bias, RMul(RMul(o.amplitude, Rat(2)),
                      RSub(tt, Rat(Floor(RAdd(<<1, 2>>, tt))))))

\* if pw <= 0: pw = epsilon / elif pw >= 1: pw = 1.0-epsilon
ClampDuty(pw) ==
    IF RLe(pw, Rat(0)) THEN Epsilon
    ELSE IF RLe(Rat(1), pw) THEN OneMinusEpsilon ELSE <<pw, 0>>
\* the duty factor of FastPulse without PWM: pw = self._pulsewidth
FixedDuty(pw) == <<pw, 0>>

\* (self.amplitude if tt % 1 < pw else -self.amplitude)+self.bias, tt with the
\* multiple of epsilon its phase brought in
PulseSample(o, tt, pw) ==
    RAdd(IF ELt(EModOne(<<tt, o.phase_eps>>), pw) THEN o.amplitude
         ELSE RNeg(o.amplitude), o.bias)

\* Sine.generator
SineNext(g) ==
    /\ ObjOf(g).cls = "Sine"
    /\ MayPull(g)
    /\ oFm' = [oFm EXCEPT ![oOf[g]] = @ + 1]
    /\ oGen' = [oGen EXCEPT ![g] =
                   Yielded(g, FmLocals(g), SineSample(ObjOf(g), FmArg(g)))]
    /\ UNCHANGED <<oObj, oOf, oPwm, oValue>>
    /\ UNCHANGED otherThanOsc

\* Triangle.generator
TriangleNext(g) ==
    /\ ObjOf(g).cls = "Triangle"
    /\ MayPull(g)
    /\ oFm' = [oFm EXCEPT ![oOf[g]] = @ + 1]
    /\ oGen' = [oGen EXCEPT ![g] =
                   Yielded(g, FmLocals(g), TriangleSample(ObjOf(g), FmArg(g)))]
    /\ UNCHANGED <<oObj, oOf, oPwm, oValue>>
    /\ UNCHANGED otherThanOsc

\* Square.generator
SquareNext(g) ==
    /\ ObjOf(g).cls = "Square"
    /\ MayPull(g)
    /\ oFm' = [oFm EXCEPT ![oOf[g]] = @ + 1]
    /\ oGen' = [oGen EXCEPT ![g] =
                   Yielded(g, FmLocals(g), SquareSample(ObjOf(g), FmArg(g)))]
    /\ UNCHANGED <<oObj, oOf, oPwm, oValue>>
    /\ UNCHANGED otherThanOsc

\* Sawtooth.generator
SawtoothNext(g) ==
    /\ ObjOf(g).cls = "Sawtooth"
    /\ MayPull(g)
    /\ oFm' = [oFm EXCEPT ![oOf[g]] = @ + 1]
    /\ oGen' = [oGen EXCEPT ![g] =
                   Yielded(g, FmLocals(g), SawtoothSample(ObjOf(g), FmArg(g)))]
    /\ UNCHANGED <<oObj, oOf, oPwm, oValue>>
    /\ UNCHANGED otherThanOsc

\* Pulse.generator: pw = next(self.pwm), clamped, before the FM statements
PulseNext(g) ==
    LET pw == ClampDuty(StreamAt(PwmStream(ObjOf(g)), oPwm[oOf[g]]))
    IN  /\ ObjOf(g).cls = "Pulse"
        /\ MayPull(g)
        /\ oPwm' = [oPwm EXCEPT ![oOf[g]] = @ + 1]
        /\ oFm' = [oFm EXCEPT ![oOf[g]] = @ + 1]
        /\ oGen' = [oGen EXCEPT ![g] =
                       Yielded(g, [FmLocals(g) EXCEPT !.duty = Append(@, pw)],
                               PulseSample(ObjOf(g), FmArg(g), pw))]
        /\ UNCHANGED <<oObj, oOf, oValue>>
        /\ UNCHANGED otherThanOsc

\* Harmonics.generator, and SawtoothH.generator which yields self.bias*2-y for
\* every y of it
HarmonicsNext(g) ==
    LET o == ObjOf(g)
        y == RAdd(RMul(HarmonicSum(o, FmArg(g), HarmonicIndices(o)), o.amplitude),
                  o.bias)
    IN  /\ o.cls \in {"Harmonics", "SquareH", "SawtoothH"}
        /\ MayPull(g)
        /\ IF DivRaises(Rat(o.frequency))
           THEN \* int(self.samplerate/2/self.frequency)
                /\ oGen' = Raised(g, "ZeroDivisionError")
                /\ UNCHANGED oFm
           ELSE /\ oFm' = [oFm EXCEPT ![oOf[g]] = @ + 1]
                /\ oGen' = [oGen EXCEPT ![g] =
                       Yielded(g, [FmLocals(g) EXCEPT
                                      !.harm = Append(@, HarmonicIndices(o))],
                               IF o.cls = "SawtoothH"
                               THEN RSub(RMul(o.bias, Rat(2)), y) ELSE y)]
        /\ UNCHANGED <<oObj, oOf, oPwm, oValue>>
        /\ UNCHANGED otherThanOsc

\* Linear.generator: a pull that resumes the generator first steps and clamps
\* self.value, which is kept in the object; every pull yields self.value
LinearNext(g) ==
    LET o == ObjOf(g)
        value == IF oGen[g].pc = "running" /\ Truthy(o.increment)
                 THEN RMin(o.max_value,
                           RMax(o.min_value, RAdd(oValue[oOf[g]], o.increment)))
                 ELSE oValue[oOf[g]]
    IN  /\ o.cls = "Linear"
        /\ MayPull(g)
        /\ oGen' = [oGen EXCEPT ![g] = Yielded(g, oGen[g], value)]
        /\ oValue' = [oValue EXCEPT ![oOf[g]] = value]
        /\ UNCHANGED <<oObj, oOf, oFm, oPwm>>
        /\ UNCHANGED otherThanOsc

(* The Fast classes.  FastTriangle, FastSquare, FastSawtooth and FastPulse *)
(* start with freq = self._frequency; t = self._phase/freq;                *)
(* increment = 1/self.samplerate, compute the sample at t*freq and end the *)
(* turn of the loop with t += increment.                                   *)

\* t started at the phase, not at the time the phase stands for
FastStartedAtPhase(g) ==
    IF oGen[g].pc = "created"
    THEN [oGen[g] EXCEPT !.t = ObjOf(g).phase]
    ELSE oGen[g]
\* the locals when the loop is entered
FastStarted(g) ==
    IF oGen[g].pc = "created"
    THEN [oGen[g] EXCEPT !.t = RDiv(ObjOf(g).phase, Rat(ObjOf(g).frequency))]
    ELSE oGen[g]

\* t*freq
FastArg(g) == RMul(FastStarted(g).t, Rat(ObjOf(g).frequency))

\* the locals after the turn of the loop
FastLocals(g) ==
    [FastStarted(g) EXCEPT !.t = RAdd(@, <<1, ObjOf(g).samplerate>>),
                           !.arg = Append(@, FastArg(g)),
                           !.freq = Append(@, Rat(ObjOf(g).frequency))]

\* 4*self.amplitude*(abs((t*freq+0.75) % 1 - 0.5)-0.25)+self.bias
FastTriangleSample(o, tt) ==
    RAdd(RMul(RMul(Rat(4), o.amplitude),
              RSub(RAbs(RSub(RModOne(RAdd(tt, <<3, 4>>)), <<1, 2>>)), <<1, 4>>)),
         o.bias)
\* (-self.amplitude if int(t*freq*2) % 2 else self.amplitude)+self.bias
FastSquareSample(o, tt) ==
    RAdd(IF PyInt(RMul(tt, Rat(2))) % 2 # 0 THEN RNeg(o.amplitude) ELSE o.amplitude,
         o.bias)
\* self.bias+2*self.amplitude*(tt - floor(0.5+tt))
FastSawtoothSample(o, tt) ==
    RAdd(o.bias, RMul(RMul(Rat(2), o.amplitude),
                      RSub(tt, Rat(Floor(RAdd(<<1, 2>>, tt))))))

\* FastSine.generator: rate = self.samplerate/self._frequency;
\* increment = 2*pi/rate; t = self._phase*2*pi; yield sin(t)*...; t += increment
FastSineNext(g) ==
    LET o == ObjOf(g)
        l == IF oGen[g].pc = "created" THEN [oGen[g] EXCEPT !.t = o.phase]
             ELSE oGen[g]
        rate == RDiv(Rat(o.samplerate), Rat(o.frequency))
    IN  /\ o.cls = "FastSine"
        /\ MayPull(g)
        /\ oGen' = IF DivRaises(Rat(o.frequency))
                   THEN Raised(g, "ZeroDivisionError")
                   ELSE [oGen EXCEPT ![g] =
                            Yielded(g, [l EXCEPT !.t = RAdd(@, RDiv(Rat(1), rate)),
                                                 !.arg = Append(@, l.t),
                                                 !.freq = Append(@, Rat(o.frequency))],
                                    RAdd(RMul(SinTurn(l.t), o.amplitude), o.bias))]
        /\ UNCHANGED <<oObj, oOf, oFm, oPwm, oValue>>
        /\ UNCHANGED otherThanOsc

\* FastTriangle.generator
FastTriangleNext(g) ==
    /\ ObjOf(g).cls = "FastTriangle"
    /\ MayPull(g)
    /\ oGen' = IF DivRaises(Rat(ObjOf(g).frequency))
               THEN Raised(g, "ZeroDivisionError")
               ELSE [oGen EXCEPT ![g] =
                        Yielded(g, FastLocals(g),
                                FastTriangleSample(ObjOf(g), FastArg(g)))]
    /\ UNCHANGED <<oObj, oOf, oFm, oPwm, oValue>>
    /\ UNCHANGED otherThanOsc

\* FastSquare.generator
FastSquareNext(g) ==
    /\ ObjOf(g).cls = "FastSquare"
    /\ MayPull(g)
    /\ oGen' = IF DivRaises(Rat(ObjOf(g).frequency))
               THEN Raised(g, "ZeroDivisionError")
               ELSE [oGen EXCEPT ![g] =
                        Yielded(g, FastLocals(g),
                                FastSquareSample(ObjOf(g), FastArg(g)))]
    /\ UNCHANGED <<oObj, oOf, oFm, oPwm, oValue>>
    /\ UNCHANGED otherThanOsc

\* FastSawtooth.generator
FastSawtoothNext(g) ==
    /\ ObjOf(g).cls = "FastSawtooth"
    /\ MayPull(g)
    /\ oGen' = IF DivRaises(Rat(ObjOf(g).frequency))
               THEN Raised(g, "ZeroDivisionError")
               ELSE [oGen EXCEPT ![g] =
                        Yielded(g, FastLocals(g),
                                FastSawtoothSample(ObjOf(g), FastArg(g)))]
    /\ UNCHANGED <<oObj, oOf, oFm, oPwm, oValue>>
    /\ UNCHANGED otherThanOsc

\* FastPulse.generator: with PWM (pwm = iter(self._pwm), a generator of its own,
\* clamped) or without (the pulse width as it is)
FastPulseNext(g) ==
    LET o == ObjOf(g)
        pw == IF o.pwm_lfo # <<>> THEN ClampDuty(StreamAt(o.pwm_lfo, oGen[g].pwm))
              ELSE FixedDuty(o.pulsewidth)
    IN  /\ o.cls = "FastPulse"
        /\ MayPull(g)
        /\ oGen' = IF DivRaises(Rat(o.frequency))
                   THEN Raised(g, "ZeroDivisionError")
                   ELSE [oGen EXCEPT ![g] =
                            Yielded(g, [FastLocals(g) EXCEPT
                                           !.pwm = IF o.pwm_lfo # <<>> THEN @ + 1
                                                   ELSE @,
                                           !.duty = Append(@, pw)],
                                    PulseSample(o, FastArg(g), pw))]
        /\ UNCHANGED <<oObj, oOf, oFm, oPwm, oValue>>
        /\ UNCHANGED otherThanOsc

----------------------------------------------------------------------------
(* OscillatorBase.clip: the call, and one action per pull on the           *)
(* generator of the FilteredOscillator it returns.  The oscillator that is *)
(* clipped may yield any value.                                            *)

\* pulls made on one clipped oscillator
MaxClipPulls == 3

\* sys.float_info.max is above, and sys.float_info.min (the smallest positive
\* normalized float, 2.2e-308) is above 0 and below, every other number tried: a
\* value is kept as <<h, x, l>>, standing for h*float_info.max + x +
\* l*float_info.min, and ordered by h, then x, then l
Num(x) == <<0, x, 0>>
FloatMin == <<0, Rat(0), 1>>
FloatMax == <<1, Rat(0), 0>>
\* a < b
NumLt(a, b) ==
    \/ a[1] < b[1]
    \/ a[1] = b[1] /\ RLt(a[2], b[2])
    \/ a[1] = b[1] /\ a[2] = b[2] /\ a[3] < b[3]
\* Python: min(a, b) and max(a, b), the first argument on a tie
PyMin(a, b) == IF NumLt(b, a) THEN b ELSE a
PyMax(a, b) == IF NumLt(a, b) THEN b ELSE a

\* the values the clipped oscillator yields
ClipValues == {Rat(-2), <<-1, 2>>, Rat(0), <<1, 2>>, Rat(2)}
\* minimum and maximum as given: [given |-> FALSE] is None
ClipBounds ==
    {[given |-> FALSE, value |-> Rat(0)]}
    \cup {[given |-> TRUE, value |-> x] : x \in {Rat(-1), Rat(0), Rat(1)}}
ClipArgs == [minimum : ClipBounds, maximum : ClipBounds]

ClipInit ==
    /\ cArgs \in ClipArgs
    /\ cPc = "idle"
    /\ minimum = Num(Rat(0))
    /\ maximum = Num(Rat(0))
    /\ cIn = <<>>
    /\ cOut = <<>>

otherThanClip == <<facadeVars, envVars, delayVars, chainVars, echoVars, oscVars>>

\* clip(minimum, maximum): the assertion and the defaults
ClipCall ==
    /\ cPc = "idle"
    /\ IF ~cArgs.minimum.given /\ ~cArgs.maximum.given
       THEN /\ cPc' = "AssertionError"
            /\ UNCHANGED <<minimum, maximum>>
       ELSE /\ cPc' = "clipping"
            /\ minimum' = IF ~cArgs.minimum.given THEN FloatMin
                          ELSE Num(cArgs.minimum.value)
            /\ maximum' = IF ~cArgs.maximum.given THEN FloatMax
                          ELSE Num(cArgs.maximum.value)
    /\ UNCHANGED <<cArgs, cIn, cOut>>
    /\ UNCHANGED otherThanClip

\* for v in osc: yield max(min(v, maximum), minimum)
ClipNext ==
    /\ cPc = "clipping"
    /\ Len(cOut) < MaxClipPulls
    /\ \E v \in ClipValues :
          /\ cIn' = Append(cIn, v)
          /\ cOut' = Append(cOut, PyMax(PyMin(Num(v), maximum), minimum))
    /\ UNCHANGED <<cArgs, cPc, minimum, maximum>>
    /\ UNCHANGED otherThanClip

----------------------------------------------------------------------------
(* The machines a specification does not run stay in these states. *)

FacadeIdle ==
    /\ fCall = NoCall
    /\ fPc = "off"
    /\ fBuf = <<>>
    /\ fErr = "none"
    /\ fYielded = 0

DelayIdle ==
    /\ dArgs = [seconds |-> Rat(0), samplerate |-> 1]
    /\ dPc = "off"
    /\ dCount = 0
    /\ dOut = <<>>
    /\ dSrcPos = 0
    /\ dErr = "none"

ChainIdle ==
    /\ chObj = "none"
    /\ chOps = <<>>
    /\ chErr = "none"

EchoIdle ==
    /\ eArgs = [after |-> Rat(0), asked |-> 0, amount |-> 0, delay |-> Rat(0), decay |-> Rat(1),
                samplerate |-> EchoRate]
    /\ ePc = "off"
    /\ eOut = <<>>
    /\ eSrcPos = 0
    /\ eCur = [k \in 0..0 |-> 0]
    /\ eZeros = [k \in 0..0 |-> 0]

OscIdle ==
    /\ oObj = <<>>
    /\ oOf = <<>>
    /\ oFm = <<>>
    /\ oPwm = <<>>
    /\ oValue = <<>>
    /\ oGen = <<>>

ClipIdle ==
    /\ cArgs = <<>>
    /\ cPc = "off"
    /\ minimum = <<>>
    /\ maximum = <<>>
    /\ cIn = <<>>
    /\ cOut = <<>>

----------------------------------------------------------------------------
(* Specifications *)

InitEnv == EnvInit /\ FacadeIdle /\ DelayIdle /\ ChainIdle /\ EchoIdle /\ OscIdle /\ ClipIdle

NextEnv ==
    \/ EnvNext
    \/ EnvTop
    \/ EnvIfAttack
    \/ EnvWhileAttack
    \/ EnvIfDecay
    \/ EnvWhileDecay
    \/ EnvWhileSustain
    \/ EnvIfRelease
    \/ EnvWhileRelease
    \/ EnvReleaseTail
    \/ EnvIfCycle
    \/ EnvIfStop
    \/ EnvSilence

\* an envelope generator and a consumer that may pull at any time
SpecEnv == InitEnv /\ [][NextEnv]_vars

\* the same, where a pull that was made keeps executing the generator's code:
\* next() runs the generator until it yields, returns or raises
FairSpecEnv == SpecEnv /\ WF_vars(EnvStep)

InitDelay == DelayInit /\ FacadeIdle /\ EnvIdle /\ ChainIdle /\ EchoIdle /\ OscIdle /\ ClipIdle

NextDelay ==
    \/ DelaySkipAhead
    \/ DelaySilence
    \/ DelayRelay

\* a delayed oscillator and its consumer
SpecDelay == InitDelay /\ [][NextDelay]_vars

InitChain == ChainInit /\ FacadeIdle /\ EnvIdle /\ DelayIdle /\ EchoIdle /\ OscIdle /\ ClipIdle

NextChain == \E c \in Combinators : Combine(c)

\* combinator calls chained on a primitive oscillator
SpecChain == InitChain /\ [][NextChain]_vars

InitEcho == EchoInit /\ FacadeIdle /\ EnvIdle /\ DelayIdle /\ ChainIdle /\ OscIdle /\ ClipIdle

NextEcho ==
    \/ EchoReplay
    \/ EchoMix

\* an echoing oscillator and its consumer
SpecEcho == InitEcho /\ [][NextEcho]_vars

InitFacade == FacadeInit /\ EnvIdle /\ DelayIdle /\ ChainIdle /\ EchoIdle /\ OscIdle /\ ClipIdle

NextFacade ==
    \/ fPc = "idle" /\ \E call \in FacadeCalls("render") : FacadeRender(call)
    \/ fPc = "idle" /\ \E call \in FacadeCalls("gen") : FacadeGenCall(call)
    \/ FacadeGenNext

\* a WaveSynth, one call on it and the pulls on what the call returned
SpecFacade == InitFacade /\ [][NextFacade]_vars

InitOsc == OscInit /\ FacadeIdle /\ EnvIdle /\ DelayIdle /\ ChainIdle /\ EchoIdle /\ ClipIdle

NextOsc ==
    \/ \E g \in Gens : SineNext(g)
    \/ \E g \in Gens : TriangleNext(g)
    \/ \E g \in Gens : SquareNext(g)
    \/ \E g \in Gens : SawtoothNext(g)
    \/ \E g \in Gens : PulseNext(g)
    \/ \E g \in Gens : HarmonicsNext(g)
    \/ \E g \in Gens : LinearNext(g)
    \/ \E g \in Gens : FastSineNext(g)
    \/ \E g \in Gens : FastTriangleNext(g)
    \/ \E g \in Gens : FastSquareNext(g)
    \/ \E g \in Gens : FastSawtoothNext(g)
    \/ \E g \in Gens : FastPulseNext(g)

\* an oscillator object and the generators iterating it
SpecOsc == InitOsc /\ [][NextOsc]_vars

InitClip == ClipInit /\ FacadeIdle /\ EnvIdle /\ DelayIdle /\ ChainIdle /\ EchoIdle /\ OscIdle

NextClip ==
    \/ ClipCall
    \/ ClipNext

\* a clipped oscillator and its consumer
SpecClip == InitClip /\ [][NextClip]_vars

----------------------------------------------------------------------------
(* Facade claims *)

\* the parameters pass the checks the facade documents
ParamsValid(call) ==
    /\ 2 * call.frequency <= FacadeRate
    /\ RLe(Rat(0), call.amplitude) /\ RLe(call.amplitude, Rat(1))
    /\ RLe(Rat(-1), call.bias) /\ RLe(call.bias, Rat(1))
    /\ RLe(Rat(0), call.pulsewidth) /\ RLe(call.pulsewidth, Rat(1))

\* C1: a finite render with valid parameters (a frequency above 0 among them) and
\* a duration d >= 0 completes with a buffer of exactly floor(d*r) samples.
C1_RenderLength ==
    /\ fCall.form = "render"
    /\ ParamsValid(fCall) /\ fCall.frequency > 0 /\ RLe(Rat(0), fCall.duration)
    => /\ fPc = "returned"
       /\ fErr = "none"
       /\ Len(fBuf) = Floor(RMul(fCall.duration, Rat(FacadeRate)))

\* C2: a frequency above Nyquist, an amplitude outside [0,1], a bias outside [-1,1]
\* or a pulse width outside [0,1] makes the facade call itself fail, in the render
\* form and in the *_gen form, with no sample produced.
C2_FailsAtCall ==
    fCall.op \in WaveOps /\ ~ParamsValid(fCall) =>
        /\ fPc = "raised"
        /\ fErr = "AssertionError"
        /\ fBuf = <<>> /\ fYielded = 0

----------------------------------------------------------------------------
(* Envelope claims *)

SegIdx(s) ==
    CASE s = "None" -> 0 [] s = "Attack" -> 1 [] s = "Decay" -> 2
      [] s = "Sustain" -> 3 [] s = "Release" -> 4

SegDuration(s) ==
    CASE s = "Attack" -> envArgs.attack [] s = "Decay" -> envArgs.decay
      [] s = "Sustain" -> envArgs.sustain [] s = "Release" -> envArgs.release

EnvEnding ==
    \* silence and termination only where the arguments ask for them
    /\ envPc' = "silence" => ~envArgs.cycle /\ ~envArgs.stop_at_end
    /\ envPc' = "returned" => ~envArgs.cycle /\ envArgs.stop_at_end /\ envSilence' = 0
    /\ envArgs.cycle => envPc' \notin {"silence", "returned", "if_stop"}
    \* after the release segment: Attack again, or the end
    /\ envPc = "if_cycle" /\ envPc' # envPc =>
           IF envArgs.cycle THEN envPc' = "top" ELSE envPc' = "if_stop"
    /\ envPc = "if_stop" /\ envPc' # envPc =>
           IF envArgs.stop_at_end THEN envPc' = "returned" /\ ~envPulling'
                                  ELSE envPc' = "silence"
    \* the segments start over only when cycling
    /\ envPc # "top" /\ envPc' = "top" => envArgs.cycle
    \* silence is 0.0, for ever, and leaves the source alone
    /\ envSilence' # envSilence =>
           envSilence' = envSilence + 1 /\ envOut' = Rat(0) /\ envPc' = "silence"
    /\ envPc = "silence" =>
           envPc' = "silence" /\ envSrcPos' = envSrcPos /\ envEmitted' = envEmitted
    /\ envPc = "returned" => UNCHANGED envVars
    \* a sample's segment is never an earlier one than the sample before it
    /\ envSeg' # envSeg =>
           \/ SegIdx(envSeg') > SegIdx(envSeg)
           \/ envSeg' = "None" /\ envPc = "top"

\* C3: after the Release segment the envelope re-enters Attack when cycle is set,
\* otherwise emits 0.0 for ever without advancing the source when stop_at_end is
\* not set, otherwise terminates; segments are entered only in the order Attack,
\* Decay, Sustain, Release.
C3_EnvelopeEnding == [][EnvEnding]_vars

\* two samples of silence after an envelope that went through attack and release
C3_Witness ==
    /\ envPc = "silence" /\ envSilence >= 2
    /\ envSegEmit["Attack"] >= 1 /\ envSegEmit["Release"] >= 1

\* C4: a segment whose duration is zero emits no sample, pulls nothing from the
\* source and divides nothing by its duration.
C4_ZeroSegmentSkipped ==
    /\ envErr = "none"
    /\ \A s \in Segments :
           SegDuration(s) = Rat(0) => envSegEmit[s] = 0 /\ envSegPull[s] = 0

\* attack of one sample and a half, no decay, no sustain, and the release reached
C4_Witness ==
    /\ envArgs.attack = <<3, 2 * EnvRate>>
    /\ envArgs.decay = Rat(0) /\ envArgs.sustain = Rat(0)
    /\ envSeg = "Release" /\ envSegEmit["Attack"] = 2

\* the gain of sample j (from 0) of segment s: the linear ramp of the segment
SegGain(s, j) ==
    CASE s = "Attack" ->
           RMul(Rat(j), RMul(RDiv(Rat(1), envArgs.attack), increment))
      [] s = "Decay" ->
           RAdd(Rat(1), RMul(Rat(j), RMul(RDiv(RSub(envArgs.sustain_level, Rat(1)),
                                               envArgs.decay), increment)))
      [] s = "Sustain" -> envArgs.sustain_level
      [] s = "Release" ->
           RAdd(envArgs.sustain_level,
                RMul(Rat(j), RMul(RDiv(RNeg(envArgs.sustain_level),
                                       envArgs.release), increment)))

\* C5: the envelope pulls one source sample for every sample of the Attack, Decay,
\* Sustain and Release segments it emits, and the sample it emits is that source
\* sample times the gain of the segment at that sample.
C5_OnePullPerSample ==
    /\ envSrcPos = envEmitted
    /\ \A s \in Segments : envSegPull[s] = envSegEmit[s]
    /\ envSeg # "None" /\ envSilence = 0 =>
           envOut = RMul(Src(envSrcPos - 1), SegGain(envSeg, envSegEmit[envSeg] - 1))

\* samples were emitted in all four segments
C5_Witness ==
    /\ \A s \in Segments : envSegEmit[s] >= 1
    /\ envOut # Rat(0)

\* C6: every pull on an envelope built with stop_at_end = false returns a sample,
\* for all non-negative attack, decay, sustain and release (all four zero
\* included) and for cycle = false and cycle = true.
C6_PullReturns == (envPulling /\ ~envArgs.stop_at_end) ~> ~envPulling

----------------------------------------------------------------------------
(* Delay claims *)

\* C7: for a negative offset s, delay(s) discards floor(|s|*sample_rate) source
\* samples and relays the rest: output[i] = source[i + floor(|s|*sample_rate)].
C7_SkipAhead ==
    RLt(dArgs.seconds, Rat(0)) /\ dPc \notin {"start", "off"} =>
        /\ dErr = "none"
        /\ \A i \in 1..Len(dOut) :
               dOut[i] = Src(i - 1 + Floor(RMul(Rat(dArgs.samplerate),
                                                RNeg(dArgs.seconds))))

\* C8: for a positive offset s, delay(s) emits N = floor(s*sample_rate) samples
\* 0.0 without advancing the source and then the source from its first sample.
C8_DelaySilence ==
    RLt(Rat(0), dArgs.seconds) /\ dPc # "off" =>
        LET N == Floor(RMul(Rat(dArgs.samplerate), dArgs.seconds))
        IN  /\ dErr = "none"
            /\ \A i \in 1..Len(dOut) :
                   dOut[i] = IF i - 1 < N THEN Rat(0) ELSE Src(i - 1 - N)
            /\ dSrcPos = IF Len(dOut) <= N THEN 0 ELSE Len(dOut) - N

\* an offset of two samples and a quarter: both zeros emitted, then two source samples
C8_Witness ==
    /\ dArgs.seconds = <<3, 4>> /\ dArgs.samplerate = 3
    /\ Len(dOut) = 4 /\ dSrcPos = 2

----------------------------------------------------------------------------
(* Combinator claims *)

\* C9: what a combinator returns is an oscillator again, on which every combinator
\* can be called.
C9_CombinatorsClosed ==
    chObj # "none" => chErr = "none" /\ chObj \in OscillatorClasses

----------------------------------------------------------------------------
(* Echo claims *)

RECURSIVE TapSum(_, _, _, _)
\* sum over k = k0..n of decay^k * (src[A + j - shift(k)] if j >= shift(k) else 0),
\* shift given as the sequence of the n+1 shifts of taps 0..n
TapSum(args, j, k0, shift) ==
    IF k0 > args.amount THEN Rat(0)
    ELSE RAdd(IF j >= shift[k0 + 1]
              THEN RMul(RPow(args.decay, k0), Src(AfterCount(args) + j - shift[k0 + 1]))
              ELSE Rat(0),
              TapSum(args, j, k0 + 1, shift))

\* the output the taps shifted by shift give
EchoOutputIs(shift) ==
    \A i \in 0..(Len(eOut) - 1) :
        eOut[i + 1] = IF i < AfterCount(eArgs) THEN Src(i)
                      ELSE TapSum(eArgs, i - AfterCount(eArgs), 0, shift)

\* C10 as stated: tap k is shifted by k*D samples, D = floor(delay*sample_rate)
C10_EchoSumOfMultiples ==
    ePc \in {"after", "mixing"} /\ ~RLt(eArgs.delay, Rat(0)) =>
        EchoOutputIs([k \in 1..(eArgs.amount + 1) |->
            (k - 1) * Floor(RMul(Rat(eArgs.samplerate), eArgs.delay))])

\* C10 (amended): out[i] = src[i] for i < A and, for i >= A with j = i - A,
\* out[i] = sum over k = 0..n of decay^k * (src[A + j - D_k] if j >= D_k else 0)
\* where tap k is shifted by D_k = floor(k*delay*sample_rate) samples.
C10_EchoSum ==
    ePc \in {"after", "mixing"} /\ ~RLt(eArgs.delay, Rat(0)) =>
        EchoOutputIs([k \in 1..(eArgs.amount + 1) |->
            Floor(RMul(Rat(eArgs.samplerate), RMul(Rat(k - 1), eArgs.delay)))])

\* two echos a sample and a half apart, all of them sounding, after a replay
C10_Witness ==
    /\ eArgs.amount >= 2
    /\ RMul(Rat(eArgs.samplerate), eArgs.delay) = <<3, 2>>
    /\ AfterCount(eArgs) >= 1
    /\ Len(eOut) >= AfterCount(eArgs) + 4
    /\ eArgs.decay = <<1, 2>>

\* the number of source samples fetched that the slowest echo has not read yet:
\* what the tee holds for its branches
RECURSIVE SlowestCursor(_)
SlowestCursor(k) ==
    IF k = 0 THEN eCur[0]
    ELSE IF eCur[k] < SlowestCursor(k - 1) THEN eCur[k] ELSE SlowestCursor(k - 1)

InFlight == eSrcPos - (IF ePc = "after" THEN eSrcPos
                       ELSE AfterCount(eArgs) + SlowestCursor(eArgs.amount))

\* the source was fetched once for every sample put out, and echo 0 has read
\* all of it
SourceOncePerSample ==
    /\ eSrcPos = Len(eOut)
    /\ ePc = "mixing" => AfterCount(eArgs) + eCur[0] = eSrcPos
    /\ \A k \in 0..eArgs.amount : eCur[k] <= eCur[0]

----------------------------------------------------------------------------
(* Pulse claims *)

\* the argument q of sample n of generator g, modulo 1
ArgModOne(g, n) == EModOne(<<oGen[g].arg[n], ObjOf(g).phase_eps>>)

High(g) == RAdd(ObjOf(g).amplitude, ObjOf(g).bias)
Low(g) == RAdd(RNeg(ObjOf(g).amplitude), ObjOf(g).bias)

\* the samples generator g has yielded are those of a pulse whose duty factor was
\* forced between epsilon and 1-epsilon
NeverDegenerate(g) ==
    /\ \A n \in 1..Len(oGen[g].out) :
          /\ ~ELt(oGen[g].duty[n], Epsilon)
          /\ ~ELt(OneMinusEpsilon, oGen[g].duty[n])
          /\ ArgModOne(g, n) = <<Rat(0), 0>> => oGen[g].out[n] = High(g)
    /\ (\E n \in 1..Len(oGen[g].out) : ~ELt(ArgModOne(g, n), OneMinusEpsilon))
          => \E m \in 1..Len(oGen[g].out) : oGen[g].out[m] = Low(g)

\* C12: in Pulse, in FastPulse with a PWM source and in FastPulse with a fixed
\* pulse width, built by the facade or directly, every duty factor in [0,1] is
\* forced between epsilon and 1-epsilon before the comparison: a sample with
\* q mod 1 = 0 is +amplitude+bias, and a sample -amplitude+bias has been emitted
\* whenever some sample had q mod 1 >= 1-epsilon.
C12_DutyClamped ==
    \A g \in Gens :
        ObjOf(g).cls \in {"Pulse", "FastPulse"}
        /\ RLe(Rat(0), ObjOf(g).pulsewidth) /\ RLe(ObjOf(g).pulsewidth, Rat(1))
        => NeverDegenerate(g)

----------------------------------------------------------------------------
(* Harmonics claims *)

\* C13: in Harmonics, for all harmonics, odd-only and even-only, every harmonic
\* index k whose term sin(q*k) is summed into an emitted sample has
\* k*frequency <= sample_rate/2, for num_harmonics >= 1 and
\* frequency <= sample_rate/2.
C13_BelowNyquist ==
    \A g \in Gens :
        /\ ObjOf(g).cls \in {"Harmonics", "SquareH", "SawtoothH"}
        /\ ObjOf(g).num_harmonics >= 1
        /\ 2 * ObjOf(g).frequency <= ObjOf(g).samplerate
        => \A n \in 1..Len(oGen[g].harm) : \A k \in oGen[g].harm[n] :
               2 * k * ObjOf(g).frequency <= ObjOf(g).samplerate

----------------------------------------------------------------------------
(* Clip claims *)

\* v clamped to the bounds that were given, a bound not given restricting nothing
Clamped(v) ==
    LET capped == IF cArgs.maximum.given /\ RLt(cArgs.maximum.value, v)
                  THEN cArgs.maximum.value ELSE v
    IN  IF cArgs.minimum.given /\ RLt(capped, cArgs.minimum.value)
        THEN cArgs.minimum.value ELSE capped

\* C14: clip clamps each pulled sample v to [min, max]; a bound that is not
\* supplied imposes no restriction: clip(maximum=M) emits min(v, M) for every v,
\* negative v included, and clip(minimum=m) emits max(v, m) for every v.
C14_ClipClamps ==
    cPc = "clipping" =>
        /\ Len(cOut) = Len(cIn)
        /\ \A i \in 1..Len(cOut) : cOut[i] = Num(Clamped(cIn[i]))

----------------------------------------------------------------------------
(* Restart claims *)

\* the samples both generators have yielded are the same
SameSamples ==
    \A n \in 1..Len(oGen[1].out) :
        n <= Len(oGen[2].out) => oGen[2].out[n] = oGen[1].out[n]

\* C15: every oscillator is restartable: a new iteration over the same object
\* yields the same samples from the beginning as the first iteration did,
\* however many samples other iterations of the object have pulled; for
\* Linear and for the FM-capable primitives with an FM or PWM source too.
C15_Restartable ==
    oOf[1] = oOf[2] => SameSamples

----------------------------------------------------------------------------
(* Square claims *)

\* C16: every sample of Square (whatever the FM deviations) and of FastSquare is
\* exactly +amplitude+bias or -amplitude+bias, and every sample of a
\* facade-rendered square is int() of one of these two values.
C16_SquareTwoValued ==
    \A g \in Gens :
        ObjOf(g).cls \in {"Square", "FastSquare"} =>
            /\ \A n \in 1..Len(oGen[g].out) : oGen[g].out[n] \in {High(g), Low(g)}
            /\ ObjOf(g).facade =>
                  /\ Len(oGen[g].pcm) = Len(oGen[g].out)
                  /\ \A n \in 1..Len(oGen[g].pcm) :
                        /\ oGen[g].pcm[n] \in {PyInt(High(g)), PyInt(Low(g))}
                        /\ oGen[g].pcm[n] = PyInt(oGen[g].out[n])

\* a facade-rendered Square under FM with both values emitted, neither of them a
\* whole number
C16_Witness ==
    \E g \in Gens :
        /\ ObjOf(g).cls = "Square" /\ ObjOf(g).facade
        /\ High(g)[2] # 1 /\ Low(g)[2] # 1
        /\ \E n, m \in 1..Len(oGen[g].out) :
              /\ oGen[g].out[n] = High(g) /\ oGen[g].pcm[n] = PyInt(High(g))
              /\ oGen[g].out[m] = Low(g) /\ oGen[g].pcm[m] = PyInt(Low(g))
              /\ oGen[g].freq[n] # oGen[g].freq[m]

----------------------------------------------------------------------------
(* FM claims *)

FmClasses == {"Sine", "Triangle", "Square", "Sawtooth", "Pulse", "Harmonics",
              "SquareH", "SawtoothH"}

\* C17: in Sine, Triangle, Square, Sawtooth, Pulse and Harmonics, for every
\* sequence of FM deviations, the argument of sample 0 is the phase and the
\* argument of sample n is that of sample n-1 plus freq_(n-1)*increment, where
\* freq_n = frequency*(1+d_n) and increment is the step of t per sample
\* (arguments in radians counted in multiples of 2*pi).
C17_PhaseContinuous ==
    \A g \in Gens :
        ObjOf(g).cls \in FmClasses =>
            /\ Len(oGen[g].arg) = Len(oGen[g].out)
            /\ \A n \in 1..Len(oGen[g].arg) :
                  /\ n = 1 => oGen[g].arg[n] = ObjOf(g).phase
                  /\ n > 1 => oGen[g].arg[n] =
                                  RAdd(oGen[g].arg[n - 1],
                                       RMul(oGen[g].freq[n - 1],
                                            <<1, ObjOf(g).samplerate>>))
                  /\ Len(oGen[3 - g].out) = 0 =>
                        oGen[g].freq[n] =
                            RMul(Rat(ObjOf(g).frequency),
                                 RAdd(Rat(1), StreamAt(FmStream(ObjOf(g)), n - 1)))

\* a Sine whose frequency changed twice in its first three samples
C17_Witness ==
    \E g \in Gens :
        /\ ObjOf(g).cls = "Sine"
        /\ Len(oGen[g].arg) >= 4
        /\ oGen[g].freq[1] # oGen[g].freq[2]
        /\ oGen[g].freq[2] # oGen[g].freq[3]
        /\ ObjOf(g).phase # Rat(0)

----------------------------------------------------------------------------
(* Fast claims *)

\* C18: with the same frequency (above 0), amplitude, phase, bias and sample
\* rate, FastTriangle, FastSquare, FastSawtooth and FastPulse (fixed pulse width
\* strictly between 0 and 1) emit, at every sample index, the sample of
\* Triangle, Square, Sawtooth and Pulse without FM; negative phases included.
C18_FastEquivalent ==
    /\ oOf[1] # oOf[2]
    /\ ObjOf(1).cls \in {"FastTriangle", "FastSquare", "FastSawtooth", "FastPulse"}
    /\ ObjOf(1).frequency > 0
    /\ ObjOf(1).cls = "FastPulse" =>
          RLt(Rat(0), ObjOf(1).pulsewidth) /\ RLt(ObjOf(1).pulsewidth, Rat(1))
    => /\ oGen[1].pc # "ZeroDivisionError"
       /\ SameSamples
       /\ \A n \in 1..Len(oGen[1].arg) :
             n <= Len(oGen[2].arg) => oGen[2].arg[n] = oGen[1].arg[n]

\* a FastSawtooth at a negative phase and 2 Hz and its Sawtooth, two samples each
C18_Witness ==
    /\ oOf[1] # oOf[2]
    /\ ObjOf(1).cls = "FastSawtooth" /\ ObjOf(2).cls = "Sawtooth"
    /\ RLt(ObjOf(1).phase, Rat(0))
    /\ ObjOf(1).frequency = 2
    /\ Len(oGen[1].out) = 2 /\ Len(oGen[2].out) = 2
    /\ oGen[1].out[1] # oGen[1].out[2]

====
